---------------------------- MODULE Spec2Model ----------------------------
(***************************************************************************)
(* ComicViewer2 backend: the page source (comic_parser.py) and the library *)
(* scanner (scanner.py) over a file tree, with the persistence port        *)
(* (database.py) the scanner reports to.                                   *)
(*                                                                         *)
(* A string is a sequence of one-character strings, so that splitext,      *)
(* lower, startswith, endswith, the regular expressions and the byte-wise  *)
(* ordering of names are computed as Python computes them.                 *)
(***************************************************************************)
EXTENDS Integers, Sequences, FiniteSets, TLC

VARIABLES
    fs,       \* the file tree: path -> node (never written by the program)
    page,     \* the last page-source call: its arguments and its outcome
    db,       \* the persistence port's tables: mangas and chapters rows
    run,      \* the last scan_source call: source, outcome, port calls made
    nscans,   \* number of scan_source calls made so far
    last      \* the last call of a helper function: its arguments and result

vars == <<fs, page, db, run, nscans, last>>

---------------------------------------------------------------------------
(* Bounds of the model.                                                    *)

\* longest ZIP central directory (number of entries) of a generated archive
MaxEntries == 2
\* number of scan_source calls in one behaviour
MaxScans == 2
\* number of distinct enumeration orders os.listdir is given per directory
ListOrders == 3
\* number of name fragments a generated chapter name is made of, at most
MaxParts == 3
\* largest width and height of the small pictures
MaxDim == 4

---------------------------------------------------------------------------
(* Characters and strings.                                                 *)

\* The characters of the model in increasing code-point order; only their
\* relative order is used (Python compares str by code point).
Ascii ==
    << " ", "-", ".", "/",
       "0", "1", "2", "3", "4", "5", "6", "7", "8", "9",
       "A", "B", "C", "D", "E", "F", "G", "H", "I", "J", "K", "L", "M",
       "N", "O", "P", "Q", "R", "S", "T", "U", "V", "W", "X", "Y", "Z",
       "_",
       "a", "b", "c", "d", "e", "f", "g", "h", "i", "j", "k", "l", "m",
       "n", "o", "p", "q", "r", "s", "t", "u", "v", "w", "x", "y", "z" >>

Chars == { Ascii[i] : i \in 1..Len(Ascii) }

UpperCase ==
    << "A", "B", "C", "D", "E", "F", "G", "H", "I", "J", "K", "L", "M",
       "N", "O", "P", "Q", "R", "S", "T", "U", "V", "W", "X", "Y", "Z" >>
LowerCase ==
    << "a", "b", "c", "d", "e", "f", "g", "h", "i", "j", "k", "l", "m",
       "n", "o", "p", "q", "r", "s", "t", "u", "v", "w", "x", "y", "z" >>
DigitChars == << "0", "1", "2", "3", "4", "5", "6", "7", "8", "9" >>
Digits == { DigitChars[i] : i \in DOMAIN DigitChars }

\* str.lower() on one character
LowerChar ==
    [ c \in Chars |->
        IF \E i \in DOMAIN UpperCase : UpperCase[i] = c
        THEN LowerCase[CHOOSE i \in DOMAIN UpperCase : UpperCase[i] = c]
        ELSE c ]

\* str.lower()
Lower(s) == [ i \in 1..Len(s) |-> LowerChar[s[i]] ]

\* str.startswith(prefix)
StartsWith(s, prefix) ==
    /\ Len(prefix) <= Len(s)
    /\ SubSeq(s, 1, Len(prefix)) = prefix

\* str.endswith(suffix)
EndsWith(s, suffix) ==
    /\ Len(suffix) <= Len(s)
    /\ SubSeq(s, Len(s) - Len(suffix) + 1, Len(s)) = suffix

\* str.rfind(c) for a single character, 1-based; 0 when c does not occur
RFind(s, c) ==
    IF \E i \in 1..Len(s) : s[i] = c
    THEN CHOOSE i \in 1..Len(s) : s[i] = c /\ \A j \in (i+1)..Len(s) : s[j] # c
    ELSE 0

\* ord(c), up to the order of the characters
Ord == [ c \in Chars |-> CHOOSE i \in DOMAIN Ascii : Ascii[i] = c ]

\* ord(x) < ord(y)
CharLess(x, y) == Ord[x] < Ord[y]

\* a < b in Python's str ordering (lexicographic by code point)
StrLess(a, b) ==
    \E k \in 1..(Len(b)) :
        /\ k <= Len(a) + 1
        /\ SubSeq(a, 1, k - 1) = SubSeq(b, 1, k - 1)
        /\ \/ k = Len(a) + 1
           \/ (k <= Len(a) /\ CharLess(a[k], b[k]))

StrLeq(a, b) == a = b \/ StrLess(a, b)

\* list.sort() / sorted() on a list of str: insertion into a sorted list
RECURSIVE Insert(_, _)
Insert(x, s) ==
    IF s = <<>> THEN <<x>>
    ELSE IF StrLess(x, Head(s)) THEN <<x>> \o s
    ELSE <<Head(s)>> \o Insert(x, Tail(s))

\* a list left in the order it was built in (no sort)
SortStrs_skipped(s) == s

RECURSIVE SortStrs(_)
SortStrs(s) ==
    IF s = <<>> THEN <<>> ELSE Insert(s[Len(s)], SortStrs(SubSeq(s, 1, Len(s) - 1)))

\* os.path.splitext (posixpath): the extension starts at the last dot of the
\* last path component, unless only dots precede it in that component
SplitExt(p) ==
    LET sepIndex == RFind(p, "/")
        dotIndex == RFind(p, ".")
    IN  IF /\ dotIndex > sepIndex
           /\ \E k \in (sepIndex + 1)..(dotIndex - 1) : p[k] # "."
        THEN [root |-> SubSeq(p, 1, dotIndex - 1), ext |-> SubSeq(p, dotIndex, Len(p))]
        ELSE [root |-> p, ext |-> <<>>]

\* os.path.join(a, b) (posixpath)
PathJoin(a, b) ==
    IF StartsWith(b, <<"/">>) THEN b
    ELSE IF a = <<>> \/ EndsWith(a, <<"/">>) THEN a \o b
    ELSE a \o <<"/">> \o b

---------------------------------------------------------------------------
(* The file tree and the library calls made on it (os, os.path, zipfile). *)
(* A node is a directory (listable or not: os.listdir raises              *)
(* PermissionError on an unlistable one) or a file.  A file has a content *)
(* id (its bytes) and, when it is a ZIP container, its central directory: *)
(* zip = "ok" (opens), "bad" (the end-of-central-directory record is      *)
(* found, so zipfile.is_zipfile is true, but the central directory cannot *)
(* be read and zipfile.ZipFile raises BadZipFile) or "no" (no ZIP).       *)
(* An entry of a central directory has a name, the content id of its      *)
(* bytes and crc: whether reading it passes the CRC check.                *)

Dir(listable) ==
    [kind |-> "dir", listable |-> listable, zip |-> "no", entries |-> <<>>, data |-> 0]

File(data) ==
    [kind |-> "file", listable |-> FALSE, zip |-> "no", entries |-> <<>>, data |-> data]

ZipFile(zip, entries, data) ==
    [kind |-> "file", listable |-> FALSE, zip |-> zip, entries |-> entries, data |-> data]

Entry(name, data, crc) == [name |-> name, data |-> data, crc |-> crc]

Exists(path) == path \in DOMAIN fs

\* os.path.isfile
IsFile(path) == Exists(path) /\ fs[path].kind = "file"

\* os.path.isdir
IsDir(path) == Exists(path) /\ fs[path].kind = "dir"

\* zipfile.is_zipfile: true when the end-of-central-directory record is found
IsZipFile(path) == IsFile(path) /\ fs[path].zip \in {"ok", "bad"}

\* the names of the immediate children of a directory
ChildNames(path) ==
    LET n == Len(path)
    IN  { SubSeq(q, n + 2, Len(q)) :
            q \in { r \in DOMAIN fs :
                      /\ Len(r) > n + 1
                      /\ SubSeq(r, 1, n) = path
                      /\ r[n + 1] = "/"
                      /\ \A k \in (n + 2)..Len(r) : r[k] # "/" } }

\* some sequence holding each element of a finite set of strings once
RECURSIVE SeqOfSet(_)
SeqOfSet(S) ==
    IF S = {} THEN <<>>
    ELSE LET x == CHOOSE y \in S : \A z \in S : StrLeq(y, z)
         IN  <<x>> \o SeqOfSet(S \ {x})

\* the seed-th arrangement of a sequence (every arrangement of n elements
\* is the seed-th one for some seed below n!)
RECURSIVE Arrange(_, _)
Arrange(s, seed) ==
    IF s = <<>> THEN <<>>
    ELSE LET n == Len(s)
             i == (seed % n) + 1
         IN  <<s[i]>> \o
             Arrange(SubSeq(s, 1, i - 1) \o SubSeq(s, i + 1, n), seed \div n)

Ok(v) == [exc |-> "none", val |-> v]
Raise(e, v) == [exc |-> e, val |-> v]

\* os.listdir: the children in an arbitrary order (chosen by seed); raises
\* on a missing path, a file and a directory that may not be listed
ListDir(path, seed) ==
    IF ~Exists(path) THEN Raise("FileNotFoundError", <<>>)
    ELSE IF ~IsDir(path) THEN Raise("NotADirectoryError", <<>>)
    ELSE IF ~fs[path].listable THEN Raise("PermissionError", <<>>)
    ELSE Ok(Arrange(SeqOfSet(ChildNames(path)), seed))

\* zipfile.ZipFile(path, "r"): the exception opening raises, or "none"
ZipOpen(path) ==
    IF ~Exists(path) THEN "FileNotFoundError"
    ELSE IF IsDir(path) THEN "IsADirectoryError"
    ELSE IF fs[path].zip # "ok" THEN "BadZipFile"
    ELSE "none"

\* ZipFile.namelist(): the entry names in central-directory order
NameList(path) == [ i \in 1..Len(fs[path].entries) |-> fs[path].entries[i].name ]

\* ZipFile.read(name): the name resolves through NameToInfo, in which a
\* later entry of the same name replaces an earlier one
ZipRead(path, name) ==
    LET es == fs[path].entries
        hits == { i \in 1..Len(es) : es[i].name = name }
    IN  IF hits = {} THEN [exc |-> "KeyError", found |-> FALSE, data |-> 0]
        ELSE LET e == es[CHOOSE i \in hits : \A j \in hits : j <= i]
             IN  IF e.crc
                 THEN [exc |-> "none", found |-> TRUE, data |-> e.data]
                 ELSE [exc |-> "BadZipFile", found |-> FALSE, data |-> 0]

\* open(path, "rb").read()
ReadFile(path) ==
    IF ~Exists(path) THEN [exc |-> "FileNotFoundError", found |-> FALSE, data |-> 0]
    ELSE IF IsDir(path) THEN [exc |-> "IsADirectoryError", found |-> FALSE, data |-> 0]
    ELSE [exc |-> "none", found |-> TRUE, data |-> fs[path].data]

\* the value None returned by a function that returns Optional[bytes]
None == [exc |-> "none", found |-> FALSE, data |-> 0]

---------------------------------------------------------------------------
(* comic_parser.py                                                         *)

Str_jpg  == <<".", "j", "p", "g">>
Str_jpeg == <<".", "j", "p", "e", "g">>
Str_png  == <<".", "p", "n", "g">>
Str_webp == <<".", "w", "e", "b", "p">>
Str_gif  == <<".", "g", "i", "f">>
Str_bmp  == <<".", "b", "m", "p">>
Str_tiff == <<".", "t", "i", "f", "f">>
Str_cbz  == <<".", "c", "b", "z">>
Str_zip  == <<".", "z", "i", "p">>
Str_MACOSX == <<"_", "_", "M", "A", "C", "O", "S", "X">>

IMAGE_EXTENSIONS ==
    {Str_jpg, Str_jpeg, Str_png, Str_webp, Str_gif, Str_bmp, Str_tiff}

\* is_image_file comparing the extension as written (no .lower())
is_image_file_cased(filename) == SplitExt(filename).ext \in IMAGE_EXTENSIONS

is_image_file(filename) == Lower(SplitExt(filename).ext) \in IMAGE_EXTENSIONS

is_cbz_file(filepath) ==
    /\ IsFile(filepath)
    /\ (EndsWith(Lower(filepath), Str_cbz) \/ EndsWith(Lower(filepath), Str_zip))
    /\ IsZipFile(filepath)

\* the comprehension's condition of list_cbz_pages
CbzKeep(name) == is_image_file(name) /\ ~StartsWith(name, Str_MACOSX)

list_cbz_pages(cbz_path) ==
    IF ZipOpen(cbz_path) # "none" THEN Raise(ZipOpen(cbz_path), <<>>)
    ELSE Ok(SortStrs(SelectSeq(NameList(cbz_path), CbzKeep)))

extract_cbz_page(cbz_path, page_name) ==
    LET opened == ZipOpen(cbz_path)
        got == ZipRead(cbz_path, page_name)
    IN  IF opened = "BadZipFile" THEN None
        ELSE IF opened # "none" THEN [exc |-> opened, found |-> FALSE, data |-> 0]
        ELSE IF got.exc \in {"KeyError", "BadZipFile"} THEN None
        ELSE got

\* list_folder_pages without images.sort()
\* [os.path.join(folder_path, f) for f in names]
JoinAll(folder_path, names) ==
    [ i \in 1..Len(names) |-> PathJoin(folder_path, names[i]) ]

list_folder_pages_unsorted(folder_path, seed) ==
    LET Images(ls) ==
            IF ls.exc # "none" THEN ls
            ELSE Ok(JoinAll(folder_path, SelectSeq(ls.val, is_image_file)))
    IN  IF ~IsDir(folder_path) THEN Ok(<<>>) ELSE Images(ListDir(folder_path, seed))

list_folder_pages(folder_path, seed) ==
    LET Images(ls) ==
            IF ls.exc # "none" THEN ls
            ELSE Ok(SortStrs(JoinAll(folder_path, SelectSeq(ls.val, is_image_file))))
    IN  IF ~IsDir(folder_path) THEN Ok(<<>>) ELSE Images(ListDir(folder_path, seed))

\* an int result: the value returned, or the exception raised
IntOk(n) == [exc |-> "none", n |-> n]
IntRaise(e) == [exc |-> e, n |-> 0]

\* len(pages) of a listing, or the exception the listing raised
LenOf(pages) ==
    IF pages.exc # "none" THEN IntRaise(pages.exc) ELSE IntOk(Len(pages.val))

get_page_count(chapter_path, seed) ==
    IF is_cbz_file(chapter_path) THEN LenOf(list_cbz_pages(chapter_path))
    ELSE IF IsDir(chapter_path) THEN LenOf(list_folder_pages(chapter_path, seed))
    ELSE IntOk(0)

get_page_image(chapter_path, page_number, seed) ==
    LET FromCbz(pages) ==
            IF pages.exc # "none" THEN [exc |-> pages.exc, found |-> FALSE, data |-> 0]
            ELSE IF 0 <= page_number /\ page_number < Len(pages.val)
            THEN extract_cbz_page(chapter_path, pages.val[page_number + 1])
            ELSE None
        FromFolder(pages) ==
            IF pages.exc # "none" THEN [exc |-> pages.exc, found |-> FALSE, data |-> 0]
            ELSE IF 0 <= page_number /\ page_number < Len(pages.val)
            THEN ReadFile(pages.val[page_number + 1])
            ELSE None
    IN  IF is_cbz_file(chapter_path) THEN FromCbz(list_cbz_pages(chapter_path))
        ELSE IF IsDir(chapter_path) THEN FromFolder(list_folder_pages(chapter_path, seed))
        ELSE None


\* |a|
Abs(a) == IF a < 0 THEN 0 - a ELSE a

\* The pictures of the model.  The content id of a file that decodes as an
\* image enumerates the pictures by width, height and mode (id 0 and the
\* ids past the last picture do not decode); the widths and heights are
\* 1..MaxDim and the sizes of the documented examples.
DimSeq == [ i \in 1..MaxDim |-> i ] \o <<100, 300, 400, 1200, 1600>>
Dims == { DimSeq[i] : i \in DOMAIN DimSeq }
Modes == <<"RGB", "RGBA">>
NumPictures == Len(DimSeq) * Len(DimSeq) * Len(Modes)

\* Image.open(BytesIO(image_data)): the picture, or the exception raised
ImageOpen(data) ==
    IF data < 1 \/ data > NumPictures
    THEN [exc |-> "UnidentifiedImageError", w |-> 0, h |-> 0, mode |-> "none"]
    ELSE [exc |-> "none",
          w |-> DimSeq[(((data - 1) \div Len(Modes)) \div Len(DimSeq)) + 1],
          h |-> DimSeq[(((data - 1) \div Len(Modes)) % Len(DimSeq)) + 1],
          mode |-> Modes[((data - 1) % Len(Modes)) + 1]]

\* floor(num / den) and ceil(num / den)
Floor(num, den) == num \div den
Ceil(num, den) == (num + den - 1) \div den

\* max(min(floor(number), ceil(number), key=key), 1) of Image.thumbnail,
\* for number = num / den; floor_wins says key(floor) <= key(ceil)
round_aspect(num, den, floor_wins) ==
    LET AtLeastOne(n) == IF n < 1 THEN 1 ELSE n
    IN  AtLeastOne(IF floor_wins THEN Floor(num, den) ELSE Ceil(num, den))

\* preserve_aspect_ratio of Image.thumbnail without its early return: an
\* image smaller than the box is scaled up to it
preserve_aspect_ratio_upscaling(w, h, x, y) ==
    LET KeyX(a, b) == Abs(w * y - a * h) <= Abs(w * y - b * h)
        KeyY(a, b) == a = 0 \/ (b # 0 /\ Abs(w * a - x * h) * b <= Abs(w * b - x * h) * a)
    IN  IF x * h >= w * y
        THEN [w |-> round_aspect(y * w, h, KeyX(Floor(y * w, h), Ceil(y * w, h))),
              h |-> y]
        ELSE [w |-> x,
              h |-> round_aspect(x * h, w, KeyY(Floor(x * h, w), Ceil(x * h, w)))]

\* preserve_aspect_ratio of Image.thumbnail for an image of size (w, h) and
\* the box (x, y): the size the image is resized to.  aspect = w / h; the
\* keys abs(aspect - n / y) and abs(aspect - x / n) are compared as exact
\* fractions.
preserve_aspect_ratio(w, h, x, y) ==
    LET KeyX(a, b) == Abs(w * y - a * h) <= Abs(w * y - b * h)
        KeyY(a, b) == a = 0 \/ (b # 0 /\ Abs(w * a - x * h) * b <= Abs(w * b - x * h) * a)
    IN  IF x >= w /\ y >= h THEN [w |-> w, h |-> h]
        ELSE IF x * h >= w * y
        THEN [w |-> round_aspect(y * w, h, KeyX(Floor(y * w, h), Ceil(y * w, h))),
              h |-> y]
        ELSE [w |-> x,
              h |-> round_aspect(x * h, w, KeyY(Floor(x * h, w), Ceil(x * h, w)))]

\* an Optional[bytes] result that is a JPEG: its size, or None
NoThumb == [exc |-> "none", found |-> FALSE, w |-> 0, h |-> 0]

get_page_thumbnail(chapter_path, page_number, max_w, max_h, seed) ==
    LET Saved(img, size) ==
            IF img.mode = "RGBA" THEN NoThumb
            ELSE [exc |-> "none", found |-> TRUE, w |-> size.w, h |-> size.h]
        Opened(img) ==
            IF img.exc # "none" THEN NoThumb
            ELSE Saved(img, preserve_aspect_ratio(img.w, img.h, max_w, max_h))
        Got(image_data) ==
            IF image_data.exc # "none"
            THEN [exc |-> image_data.exc, found |-> FALSE, w |-> 0, h |-> 0]
            ELSE IF ~image_data.found THEN NoThumb
            ELSE Opened(ImageOpen(image_data.data))
    IN  Got(get_page_image(chapter_path, page_number, seed))

---------------------------------------------------------------------------
(* scanner.py: the chapter-number heuristic                                *)

\* a float: mant / 10^exp, with no trailing zero in the fraction
Float(mant, exp) == [mant |-> mant, exp |-> exp]

RECURSIVE NormFloat(_, _)
NormFloat(mant, exp) ==
    IF exp > 0 /\ mant % 10 = 0 THEN NormFloat(mant \div 10, exp - 1)
    ELSE Float(mant, exp)

\* int(c) for one digit
DigitVal == [ c \in Digits |-> (CHOOSE i \in DOMAIN DigitChars : DigitChars[i] = c) - 1 ]

\* the integer a string of digits denotes
RECURSIVE DigitsVal(_)
DigitsVal(s) ==
    IF s = <<>> THEN 0
    ELSE 10 * DigitsVal(SubSeq(s, 1, Len(s) - 1)) + DigitVal[s[Len(s)]]

\* float(token) for a token \d+(\.\d+)?
ParseFloat(token) ==
    LET dot == RFind(token, ".")
    IN  IF dot = 0 THEN Float(DigitsVal(token), 0)
        ELSE NormFloat(
                 DigitsVal(SubSeq(token, 1, dot - 1) \o SubSeq(token, dot + 1, Len(token))),
                 Len(token) - dot)

IsDigitAt(s, k) == k >= 1 /\ k <= Len(s) /\ s[k] \in Digits

\* the end of the longest run of digits that starts at k (\d+, greedy)
DigitRunEnd(s, k) ==
    CHOOSE m \in k..Len(s) :
        /\ \A j \in k..m : s[j] \in Digits
        /\ ~IsDigitAt(s, m + 1)

\* the end of the match of \d+(?:\.\d+)? that starts at k
NumTokenEnd(s, k) ==
    LET m == DigitRunEnd(s, k)
    IN  IF m + 1 <= Len(s) /\ s[m + 1] = "." /\ IsDigitAt(s, m + 2)
        THEN DigitRunEnd(s, m + 2)
        ELSE m

\* [\s._-]
Separators == {" ", ".", "_", "-"}

\* the first position from k on that holds no separator ([\s._-]*, greedy)
SkipSeparators(s, k) ==
    CHOOSE m \in k..(Len(s) + 1) :
        /\ \A j \in k..(m - 1) : s[j] \in Separators
        /\ ~(m <= Len(s) /\ s[m] \in Separators)

Str_ch == <<"c", "h">>
Str_apter == <<"a", "p", "t", "e", "r">>

\* where the group (\d+(?:\.\d+)?) starts when
\* (?:ch(?:apter)?[\s._-]*)(\d+(?:\.\d+)?) matches at position i under re.I,
\* or 0 when it does not match there
\* the word w stands at position k of s, letter case ignored (re.I)
HasAt(s, k, w) ==
    /\ k + Len(w) - 1 <= Len(s)
    /\ Lower(SubSeq(s, k, k + Len(w) - 1)) = w

ChapterMatchAt(name, i) ==
    LET GroupAt(start) ==
            IF HasAt(name, i, Str_ch) /\ IsDigitAt(name, start) THEN start ELSE 0
    IN  GroupAt(SkipSeparators(name,
                    IF HasAt(name, i + 2, Str_apter)
                    THEN i + 2 + Len(Str_apter) ELSE i + 2))

\* float(match.group(1)) for the group that starts at position start
GroupNumber(name, start) == ParseFloat(SubSeq(name, start, NumTokenEnd(name, start)))

\* the heuristic with its two rules in the other order: the leading number
\* is tried before the chapter marker
_extract_chapter_number_leading_first(name) ==
    LET FirstOf(hits) ==
            IF IsDigitAt(name, 1) THEN GroupNumber(name, 1)
            ELSE IF hits # {}
            THEN GroupNumber(name,
                     ChapterMatchAt(name, CHOOSE i \in hits : \A j \in hits : i <= j))
            ELSE Float(0, 0)
    IN  FirstOf({ i \in 1..Len(name) : ChapterMatchAt(name, i) # 0 })

_extract_chapter_number(name) ==
    LET FirstOf(hits) ==
            IF hits # {}
            THEN GroupNumber(name,
                     ChapterMatchAt(name, CHOOSE i \in hits : \A j \in hits : i <= j))
            ELSE IF IsDigitAt(name, 1) THEN GroupNumber(name, 1)
            ELSE Float(0, 0)
    IN  FirstOf({ i \in 1..Len(name) : ChapterMatchAt(name, i) # 0 })

---------------------------------------------------------------------------
(* scanner.py: the cover picker                                            *)

Str_cover     == <<"c", "o", "v", "e", "r">>
Str_folder    == <<"f", "o", "l", "d", "e", "r">>
Str_poster    == <<"p", "o", "s", "t", "e", "r">>
Str_thumb     == <<"t", "h", "u", "m", "b">>
Str_thumbnail == <<"t", "h", "u", "m", "b", "n", "a", "i", "l">>

cover_names == {Str_cover, Str_folder, Str_poster, Str_thumb, Str_thumbnail}

\* the condition of the first loop of _find_cover
IsNamedCover(f) ==
    /\ Lower(SplitExt(f).root) \in cover_names
    /\ Lower(SplitExt(f).ext) \in IMAGE_EXTENSIONS

\* an Optional[str] result: the exception raised, or the path (None: found
\* is FALSE)
NoPath == [exc |-> "none", found |-> FALSE, path |-> <<>>]
SomePath(p) == [exc |-> "none", found |-> TRUE, path |-> p]

\* the first element of a list as an Optional[str] under a directory
FirstIn(path, names) ==
    IF names # <<>> THEN SomePath(PathJoin(path, Head(names))) ELSE NoPath

\* _find_cover without its first loop: the first image, whatever its name
_find_cover_first_image(path, seed) ==
    LET Pick(files) == FirstIn(path, SelectSeq(files, is_image_file))
        Listed(ls) ==
            IF ls.exc # "none" THEN [exc |-> ls.exc, found |-> FALSE, path |-> <<>>]
            ELSE Pick(SortStrs(ls.val))
    IN  IF ~IsDir(path) THEN NoPath ELSE Listed(ListDir(path, seed))

_find_cover(path, seed) ==
    LET Pick(files) ==
            IF SelectSeq(files, IsNamedCover) # <<>>
            THEN FirstIn(path, SelectSeq(files, IsNamedCover))
            ELSE FirstIn(path, SelectSeq(files, is_image_file))
        Listed(ls) ==
            IF ls.exc # "none" THEN [exc |-> ls.exc, found |-> FALSE, path |-> <<>>]
            ELSE Pick(SortStrs(ls.val))
    IN  IF ~IsDir(path) THEN NoPath ELSE Listed(ListDir(path, seed))

---------------------------------------------------------------------------
(* database.py: the two inserts scan_source makes                          *)

\* INTEGER PRIMARY KEY AUTOINCREMENT: one more than the largest id given
NextId(rows) == Len(rows) + 1

\* DatabaseManager.add_manga: the table after the insert (the new row's id
\* is cursor.lastrowid)
add_manga(d, title, source_id, cover_path, total_chapters) ==
    [d EXCEPT !.mangas =
        Append(@, [id |-> NextId(@), title |-> title, author |-> <<>>,
                   description |-> <<>>, cover_path |-> cover_path,
                   source_id |-> source_id, total_chapters |-> total_chapters])]

\* add_chapter that keeps one row per file_path (INSERT OR IGNORE)
add_chapter_once(d, manga_id, chapter_number, file_path, title, page_count) ==
    IF \E i \in 1..Len(d.chapters) : d.chapters[i].file_path = file_path THEN d
    ELSE [d EXCEPT !.chapters =
            Append(@, [id |-> NextId(@), manga_id |-> manga_id,
                       chapter_number |-> chapter_number, title |-> title,
                       file_path |-> file_path, page_count |-> page_count])]

\* DatabaseManager.add_chapter
add_chapter(d, manga_id, chapter_number, file_path, title, page_count) ==
    [d EXCEPT !.chapters =
        Append(@, [id |-> NextId(@), manga_id |-> manga_id,
                   chapter_number |-> chapter_number, title |-> title,
                   file_path |-> file_path, page_count |-> page_count])]

LastRowId(rows) == rows[Len(rows)].id

---------------------------------------------------------------------------
(* scanner.py: scan_source                                                 *)

\* the state of one scan_source call: the exception that ended it ("none"
\* while it runs and when it returns), the port, the port calls made so far
\* and the two counters
ScanState(exc, d, calls, manga_count, chapter_count) ==
    [exc |-> exc, db |-> d, calls |-> calls,
     mangas |-> manga_count, chapters |-> chapter_count]

Chapter(number, title, path, page_count) ==
    [number |-> number, title |-> title, path |-> path, page_count |-> page_count]

\* "if page_cnt >= 0": a folder is a chapter whatever it holds
FolderIsChapter_any(page_cnt) == page_cnt >= 0

\* "if page_cnt > 0": a folder is a chapter when it holds an image
FolderIsChapter(page_cnt) == page_cnt > 0

\* the loop with the heuristic given the entry's path instead of its name
RECURSIVE DiscoverChapters_path_number(_, _, _, _, _)
DiscoverChapters_path_number(manga_dir, entries, i, chapters_found, seed) ==
    IF i > Len(entries) THEN Ok(chapters_found)
    ELSE LET entry == entries[i]
             entry_path == PathJoin(manga_dir, entry)
             Visit(cnt) ==
                 IF is_cbz_file(entry_path)
                 THEN IF cnt.exc # "none" THEN Raise(cnt.exc, chapters_found)
                      ELSE DiscoverChapters_path_number(manga_dir, entries, i + 1,
                               Append(chapters_found,
                                      Chapter(_extract_chapter_number(entry_path),
                                              SplitExt(entry).root, entry_path, cnt.n)),
                               seed)
                 ELSE IF IsDir(entry_path)
                 THEN IF cnt.exc # "none" THEN Raise(cnt.exc, chapters_found)
                      ELSE IF FolderIsChapter(cnt.n)
                      THEN DiscoverChapters_path_number(manga_dir, entries, i + 1,
                               Append(chapters_found,
                                      Chapter(_extract_chapter_number(entry_path),
                                              entry, entry_path, cnt.n)),
                               seed)
                      ELSE DiscoverChapters_path_number(manga_dir, entries, i + 1, chapters_found, seed)
                 ELSE DiscoverChapters_path_number(manga_dir, entries, i + 1, chapters_found, seed)
         IN  Visit(get_page_count(entry_path, seed))

\* the loop over sorted(os.listdir(manga_dir)), from entry i on: the
\* exception that leaves it, or the chapters found
RECURSIVE DiscoverChapters(_, _, _, _, _)
DiscoverChapters(manga_dir, entries, i, chapters_found, seed) ==
    IF i > Len(entries) THEN Ok(chapters_found)
    ELSE LET entry == entries[i]
             entry_path == PathJoin(manga_dir, entry)
             Visit(cnt) ==
                 IF is_cbz_file(entry_path)
                 THEN IF cnt.exc # "none" THEN Raise(cnt.exc, chapters_found)
                      ELSE DiscoverChapters(manga_dir, entries, i + 1,
                               Append(chapters_found,
                                      Chapter(_extract_chapter_number(entry),
                                              SplitExt(entry).root, entry_path, cnt.n)),
                               seed)
                 ELSE IF IsDir(entry_path)
                 THEN IF cnt.exc # "none" THEN Raise(cnt.exc, chapters_found)
                      ELSE IF FolderIsChapter(cnt.n)
                      THEN DiscoverChapters(manga_dir, entries, i + 1,
                               Append(chapters_found,
                                      Chapter(_extract_chapter_number(entry),
                                              entry, entry_path, cnt.n)),
                               seed)
                      ELSE DiscoverChapters(manga_dir, entries, i + 1, chapters_found, seed)
                 ELSE DiscoverChapters(manga_dir, entries, i + 1, chapters_found, seed)
         IN  Visit(get_page_count(entry_path, seed))

\* the chapter loop without "chapter_count += 1"
RECURSIVE RegisterChapters_uncounted(_, _, _, _)
RegisterChapters_uncounted(st, manga_id, chapters_found, k) ==
    IF k > Len(chapters_found) THEN st
    ELSE LET ch == chapters_found[k]
         IN  RegisterChapters_uncounted(
                 ScanState("none",
                     add_chapter(st.db, manga_id, ch.number, ch.path, ch.title,
                                 ch.page_count),
                     Append(st.calls,
                            [op |-> "add_chapter", manga_id |-> manga_id,
                             chapter_number |-> ch.number, file_path |-> ch.path,
                             title |-> ch.title, page_count |-> ch.page_count]),
                     st.mangas, st.chapters),
                 manga_id, chapters_found, k + 1)

\* the loop "for ch in chapters_found", from chapter k on
RECURSIVE RegisterChapters(_, _, _, _)
RegisterChapters(st, manga_id, chapters_found, k) ==
    IF k > Len(chapters_found) THEN st
    ELSE LET ch == chapters_found[k]
         IN  RegisterChapters(
                 ScanState("none",
                     add_chapter(st.db, manga_id, ch.number, ch.path, ch.title,
                                 ch.page_count),
                     Append(st.calls,
                            [op |-> "add_chapter", manga_id |-> manga_id,
                             chapter_number |-> ch.number, file_path |-> ch.path,
                             title |-> ch.title, page_count |-> ch.page_count]),
                     st.mangas, st.chapters + 1),
                 manga_id, chapters_found, k + 1)

\* the loop over sorted(os.listdir(source_path)), from name i on
RECURSIVE ScanMangas(_, _, _, _, _, _)
ScanMangas(st, source_id, source_path, names, i, seed) ==
    IF i > Len(names) THEN st
    ELSE LET manga_name == names[i]
             manga_dir == PathJoin(source_path, manga_name)
             Fail(exc) == ScanState(exc, st.db, st.calls, st.mangas, st.chapters)
             Register(chapters_found, cover_path) ==
                 LET withManga ==
                         add_manga(st.db, manga_name, source_id, cover_path,
                                   Len(chapters_found))
                     manga_id == LastRowId(withManga.mangas)
                 IN  ScanMangas(
                         RegisterChapters(
                             ScanState("none", withManga,
                                 Append(st.calls,
                                        [op |-> "add_manga", id |-> manga_id,
                                         title |-> manga_name, source_id |-> source_id,
                                         cover_path |-> cover_path,
                                         total_chapters |-> Len(chapters_found)]),
                                 st.mangas + 1, st.chapters),
                             manga_id, chapters_found, 1),
                         source_id, source_path, names, i + 1, seed)
             Covered(chapters_found, cover) ==
                 IF cover.exc # "none" THEN Fail(cover.exc)
                 ELSE Register(chapters_found, IF cover.found THEN cover.path ELSE <<>>)
             Found(found) ==
                 IF found.exc # "none" THEN Fail(found.exc)
                 ELSE IF found.val = <<>>
                 THEN ScanMangas(st, source_id, source_path, names, i + 1, seed)
                 ELSE Covered(found.val, _find_cover(manga_dir, seed))
             Listed(ls) ==
                 IF ls.exc # "none" THEN Fail(ls.exc)
                 ELSE Found(DiscoverChapters(manga_dir, SortStrs(ls.val), 1, <<>>, seed))
         IN  IF ~IsDir(manga_dir)
             THEN ScanMangas(st, source_id, source_path, names, i + 1, seed)
             ELSE Listed(ListDir(manga_dir, seed))

\* scan_source iterating os.listdir(source_path) as enumerated (no sorted())
scan_source_unsorted(d, source_id, source_path, seed) ==
    LET Listed(ls) ==
            IF ls.exc # "none" THEN ScanState(ls.exc, d, <<>>, 0, 0)
            ELSE ScanMangas(ScanState("none", d, <<>>, 0, 0),
                            source_id, source_path, ls.val, 1, seed)
    IN  IF ~IsDir(source_path) THEN ScanState("none", d, <<>>, 0, 0)
        ELSE Listed(ListDir(source_path, seed))

\* scan_source(db, source_id, source_path): the state it ends in; mangas and
\* chapters are the returned counts when exc = "none"
scan_source(d, source_id, source_path, seed) ==
    LET Listed(ls) ==
            IF ls.exc # "none" THEN ScanState(ls.exc, d, <<>>, 0, 0)
            ELSE ScanMangas(ScanState("none", d, <<>>, 0, 0),
                            source_id, source_path, SortStrs(ls.val), 1, seed)
    IN  IF ~IsDir(source_path) THEN ScanState("none", d, <<>>, 0, 0)
        ELSE Listed(ListDir(source_path, seed))

---------------------------------------------------------------------------
(* The file trees of the model.                                            *)

P_lib == <<"/", "l", "i", "b">>
P_none == <<"/", "l", "i", "b", "/", "n", "o", "n", "e">>
P_readme == <<"/", "l", "i", "b", "/", "r", "e", "a", "d", "m", "e", ".", "t", "x", "t">>
P_all_cbz == <<"/", "l", "i", "b", "/", "a", "l", "l", ".", "c", "b", "z">>
P_all == <<"/", "l", "i", "b", "/", "a", "l", "l">>
P_bad_cbz == <<"/", "l", "i", "b", "/", "b", "a", "d", ".", "c", "b", "z">>
P_n_cbz == <<"/", "l", "i", "b", "/", "n", ".", "c", "b", "z">>
P_z_txt == <<"/", "l", "i", "b", "/", "z", ".", "t", "x", "t">>
P_U_ZIP == <<"/", "l", "i", "b", "/", "U", ".", "Z", "I", "P">>
P_locked == <<"/", "l", "i", "b", "/", "l", "o", "c", "k", "e", "d">>
P_v_cbz == <<"/", "l", "i", "b", "/", "v", ".", "c", "b", "z">>
P_v == <<"/", "l", "i", "b", "/", "v">>
P_Alpha == <<"/", "l", "i", "b", "/", "A", "l", "p", "h", "a">>
P_Beta == <<"/", "l", "i", "b", "/", "B", "e", "t", "a">>
N_Alpha == <<"A", "l", "p", "h", "a">>
N_Beta == <<"B", "e", "t", "a">>
N_Chapter01 == <<"C", "h", "a", "p", "t", "e", "r", " ", "0", "1", ".", "c", "b", "z">>
N_Chapter02 == <<"C", "h", "a", "p", "t", "e", "r", " ", "0", "2", ".", "c", "b", "z">>
N_cover == <<"c", "o", "v", "e", "r", ".", "j", "p", "g">>
N_001 == <<"0", "0", "1">>
N_ch2_5 == <<"c", "h", "2", ".", "5">>
N_c003 == <<"c", "0", "0", "3", ".", "z", "i", "p">>
N_b_jpg == <<"b", ".", "j", "p", "g">>
N_a_PNG == <<"a", ".", "P", "N", "G">>
N_mac_a == <<"_", "_", "M", "A", "C", "O", "S", "X", "/", "a", ".", "j", "p", "g">>
N_n_txt == <<"n", ".", "t", "x", "t">>
N_d_gif == <<"d", ".", "g", "i", "f">>
N_p1 == <<"p", "1", ".", "j", "p", "g">>
N_p2 == <<"p", "2", ".", "p", "n", "g">>
N_p3 == <<"p", "3", ".", "j", "p", "g">>

\* entry and file names that cover every recognised extension in lower,
\* upper and mixed case, and names that must not qualify
AllNames ==
    <<
    <<"z", ".", "j", "p", "g">>,
    <<"e", ".", "J", "P", "E", "G">>,
    <<"f", ".", "P", "n", "g">>,
    <<"g", ".", "w", "e", "b", "p">>,
    <<"h", ".", "G", "I", "F">>,
    <<"i", ".", "b", "m", "p">>,
    <<"j", ".", "T", "I", "F", "F">>,
    <<"a", ".", "b", ".", "j", "p", "g">>,
    <<"k", ".", "t", "x", "t">>,
    <<"l", ".", "j", "p", "g", "x">>,
    <<"j", "p", "g">>,
    <<".", "p", "n", "g">>,
    <<"m", ".", "j", "p", "g", ".", "t", "x", "t">>,
    <<"_", "_", "M", "A", "C", "O", "S", "X", "/", "q", ".", "j", "p", "g">>,
    <<"_", "_", "m", "a", "c", "o", "s", "x", "/", "r", ".", "j", "p", "g">>,
    <<"s", "/", "t", ".", "g", "i", "f">>,
    <<"u", ".", "p", "n", "g", "/">>,
    <<"_", "_", "M", "A", "C", "O", "S", "X", ".", "j", "p", "g">>,
    <<"w", ".", "t", "i", "f">> >>

EmptyTree == [ q \in {} |-> Dir(TRUE) ]

\* the entries of a central directory, from their names: entry i holds the
\* bytes with content id i
EntriesOf(names) == [ i \in 1..Len(names) |-> Entry(names[i], i, TRUE) ]

\* the files of a folder, from their names: the file named names[i] holds
\* the bytes with content id i
FilesOf(folder, names) ==
    [ q \in { PathJoin(folder, names[i]) : i \in 1..Len(names) } |->
        File(CHOOSE i \in 1..Len(names) : PathJoin(folder, names[i]) = q) ]

\* sequences over a set, of a length up to n
SeqsUpTo(S, n) == UNION { [1..k -> S] : k \in 0..n }

\* the names that can name a file of a directory
FlatNames(names) ==
    LET Flat(n) == \A k \in 1..Len(n) : n[k] # "/" IN SelectSeq(names, Flat)

\* Trees for the page source.  The fixed part: an archive and a folder
\* holding AllNames, an archive whose central directory cannot be read, a
\* .cbz file that is no ZIP, a ZIP without the extension, an archive with an
\* upper-case extension and an entry that fails its CRC check, and a
\* directory that may not be listed.
PageBase ==
    (P_lib :> Dir(TRUE)) @@ (P_readme :> File(90))
    @@ (P_all_cbz :> ZipFile("ok", EntriesOf(AllNames), 91))
    @@ (P_all :> Dir(TRUE)) @@ FilesOf(P_all, FlatNames(AllNames))
    @@ (P_bad_cbz :> ZipFile("bad", <<>>, 92))
    @@ (P_n_cbz :> File(93))
    @@ (P_z_txt :> ZipFile("ok", EntriesOf(<<N_b_jpg>>), 94))
    @@ (P_U_ZIP :> ZipFile("ok", <<Entry(N_b_jpg, 1, FALSE), Entry(N_a_PNG, 2, TRUE)>>, 95))
    @@ (P_locked :> Dir(FALSE))

\* The varied part: an archive with every central directory of up to
\* MaxEntries entries over four names (in any order, names repeated), or a
\* folder with any subset of four children, one of them a directory
VarNames == {N_b_jpg, N_a_PNG, N_mac_a, N_n_txt}

ArchiveVariants ==
    { (P_v_cbz :> ZipFile("ok", EntriesOf(ns), 96)) : ns \in SeqsUpTo(VarNames, MaxEntries) }

FolderChildren == <<N_b_jpg, N_a_PNG, N_n_txt, N_d_gif>>

FolderVariants ==
    { (P_v :> Dir(TRUE))
      @@ [ q \in { PathJoin(P_v, FolderChildren[i]) : i \in S } |->
             IF q = PathJoin(P_v, N_d_gif) THEN Dir(TRUE)
             ELSE File(CHOOSE i \in S : PathJoin(P_v, FolderChildren[i]) = q) ]
      : S \in SUBSET (1..Len(FolderChildren)) }

PageTrees ==
    {PageBase} \cup { (P_lib :> Dir(TRUE)) @@ v : v \in ArchiveVariants \cup FolderVariants }

\* Trees for the scanner: a source root with a file and up to two manga
\* directories.  Alpha holds archives (one with three images, one with
\* none, an unreadable one, a .cbz that is no ZIP) and a cover; Beta holds
\* chapter folders (with images, empty, unlistable) and an archive; either
\* may be missing, empty or unlistable.
ScanRoot == (P_lib :> Dir(TRUE)) @@ (P_readme :> File(90))

Ch01Options ==
    { EmptyTree,
      (PathJoin(P_Alpha, N_Chapter01) :>
          ZipFile("ok", EntriesOf(<<N_p3, N_mac_a, N_p1, N_n_txt, N_p2>>), 1)),
      (PathJoin(P_Alpha, N_Chapter01) :> ZipFile("bad", <<>>, 2)) }

Ch02Options ==
    { EmptyTree,
      (PathJoin(P_Alpha, N_Chapter02) :> ZipFile("ok", EntriesOf(<<N_n_txt>>), 3)),
      (PathJoin(P_Alpha, N_Chapter02) :> File(4)) }

CoverOptions == { EmptyTree, (PathJoin(P_Alpha, N_cover) :> File(5)) }

AlphaOptions ==
    { EmptyTree, (P_Alpha :> Dir(FALSE)) }
    \cup { (P_Alpha :> Dir(TRUE)) @@ a @@ b @@ c :
             a \in Ch01Options, b \in Ch02Options, c \in CoverOptions }

B001Options ==
    { EmptyTree,
      (PathJoin(P_Beta, N_001) :> Dir(TRUE)),
      (PathJoin(P_Beta, N_001) :> Dir(TRUE))
          @@ FilesOf(PathJoin(P_Beta, N_001), <<N_p2, N_p1>>) }

Bch25Options ==
    { EmptyTree,
      (PathJoin(P_Beta, N_ch2_5) :> Dir(TRUE))
          @@ FilesOf(PathJoin(P_Beta, N_ch2_5), <<N_a_PNG>>),
      (PathJoin(P_Beta, N_ch2_5) :> Dir(FALSE)) }

Bc003Options ==
    { EmptyTree,
      (PathJoin(P_Beta, N_c003) :> ZipFile("ok", EntriesOf(<<N_b_jpg>>), 6)) }

BetaOptions ==
    { EmptyTree, (P_Beta :> Dir(FALSE)) }
    \cup { (P_Beta :> Dir(TRUE)) @@ a @@ b @@ c :
             a \in B001Options, b \in Bch25Options, c \in Bc003Options }

ScanTrees == { ScanRoot @@ a @@ b : a \in AlphaOptions, b \in BetaOptions }

\* the registered sources (source id -> path): the root, and a path that is
\* no directory
Sources == <<P_lib, P_readme>>

---------------------------------------------------------------------------
(* The state machine.                                                      *)

NoPage == [op |-> "none", path |-> <<>>, index |-> 0, out |-> None]
NoRun == [source_id |-> 0, exc |-> "none", mangas |-> 0, chapters |-> 0, calls |-> <<>>]
EmptyDb == [mangas |-> <<>>, chapters |-> <<>>]

NoCall == [op |-> "none"]

Start == page = NoPage /\ db = EmptyDb /\ run = NoRun /\ nscans = 0 /\ last = NoCall

\* the chapter path the page-source calls of a behaviour are given: a path
\* of the tree or one that does not exist
PathsOf(tree) == DOMAIN tree \cup {P_none}
Seeds == 0..(ListOrders - 1)
Indexes == (0 - 1)..(MaxEntries + 1)

GetPageCount ==
    \E seed \in Seeds :
        /\ page' = [op |-> "count", path |-> page.path, index |-> 0,
                    out |-> get_page_count(page.path, seed)]
        /\ UNCHANGED <<fs, db, run, nscans, last>>

ListCbzPages ==
    /\ page' = [op |-> "list_cbz", path |-> page.path, index |-> 0,
                out |-> list_cbz_pages(page.path)]
    /\ UNCHANGED <<fs, db, run, nscans, last>>

ListFolderPages ==
    \E seed \in Seeds :
        /\ page' = [op |-> "list_folder", path |-> page.path, index |-> 0,
                    out |-> list_folder_pages(page.path, seed)]
        /\ UNCHANGED <<fs, db, run, nscans, last>>

GetPageImage ==
    \E page_number \in Indexes, seed \in Seeds :
        /\ page' = [op |-> "image", path |-> page.path, index |-> page_number,
                    out |-> get_page_image(page.path, page_number, seed)]
        /\ UNCHANGED <<fs, db, run, nscans, last>>

ScanSource ==
    /\ nscans < MaxScans
    /\ \E source_id \in DOMAIN Sources, seed \in Seeds :
        \E st \in {scan_source(db, source_id, Sources[source_id], seed)} :
            /\ db' = st.db
            /\ run' = [source_id |-> source_id, exc |-> st.exc, mangas |-> st.mangas,
                       chapters |-> st.chapters, calls |-> st.calls]
    /\ nscans' = nscans + 1
    /\ UNCHANGED <<fs, page, last>>

\* The page source and the scanner share no state: each is checked in its
\* own specification, over its own set of trees.
PageInit ==
    /\ fs \in PageTrees
    /\ page \in { [NoPage EXCEPT !.path = p] : p \in PathsOf(fs) }
    /\ db = EmptyDb /\ run = NoRun /\ nscans = 0 /\ last = NoCall
PageNext == GetPageCount \/ ListCbzPages \/ ListFolderPages \/ GetPageImage
PageSpec == PageInit /\ [][PageNext]_vars

ScanInit == fs \in ScanTrees /\ Start
ScanNext == ScanSource
ScanSpec == ScanInit /\ [][ScanNext]_vars

---------------------------------------------------------------------------
(* The helper functions of the scanner, called on their own.               *)


\* the names of the docstring and comments of _extract_chapter_number and
\* of the heuristic's examples
Name_Chapter_05 == <<"C", "h", "a", "p", "t", "e", "r", " ", "0", "5">>
Name_Ch_12 == <<"C", "h", ".", "1", "2">>
Name_c003 == <<"c", "0", "0", "3">>
Name_c03 == <<"c", "0", "3">>
Name_001_Title == <<"0", "0", "1", " ", "-", " ", "T", "i", "t", "l", "e">>
Name_Extra_Stories == <<"E", "x", "t", "r", "a", " ", "S", "t", "o", "r", "i", "e", "s">>
Name_02_Chapter_7 == <<"0", "2", " ", "-", " ", "C", "h", "a", "p", "t", "e", "r", " ", "7">>
Name_Chapter_12_5 == <<"C", "h", "a", "p", "t", "e", "r", " ", "1", "2", ".", "5">>
Name_Ch_005 == <<"C", "h", ".", "0", "0", "5">>

DocNames ==
    {Name_Chapter_05, Name_Ch_12, Name_c003, Name_c03,
     Name_001_Title, Name_Extra_Stories, Name_02_Chapter_7, Name_Chapter_12_5,
     Name_Ch_005}

\* fragments of chapter names: the marker in both cases, its optional rest,
\* a bare c, every separator, digits, a decimal and a letter
NameParts ==
    {<<"c", "h">>, <<"C", "H">>, <<"a", "p", "t", "e", "r">>, <<"c">>, <<" ">>,
     <<".">>, <<"_">>, <<"-">>, <<"0">>, <<"3">>,
     <<"2", ".", "5">>, <<"x">>}

RECURSIVE Concat(_)
Concat(parts) == IF parts = <<>> THEN <<>> ELSE Head(parts) \o Concat(Tail(parts))

ChapterNames == DocNames \cup { Concat(ps) : ps \in SeqsUpTo(NameParts, MaxParts) }

\* the heuristic applied to the name the behaviour was given
ExtractChapterNumber ==
    /\ last' = [op |-> "number", name |-> last.name,
                out |-> _extract_chapter_number(last.name)]
    /\ UNCHANGED <<fs, page, db, run, nscans>>

HeurInit ==
    /\ fs = EmptyTree
    /\ page = NoPage /\ db = EmptyDb /\ run = NoRun /\ nscans = 0
    /\ last \in { [op |-> "none", name |-> name] : name \in ChapterNames }
HeurNext == ExtractChapterNumber
HeurSpec == HeurInit /\ [][HeurNext]_vars

\* The cover picker on its own: a directory /lib/v holding any subset of
\* eight names (cover names with and without an image extension, in lower
\* and upper case, and plain pages), a file, a missing path and a directory
\* that may not be listed.
N_page_001 == <<"p", "a", "g", "e", "_", "0", "0", "1", ".", "j", "p", "g">>
N_page_002 == <<"p", "a", "g", "e", "_", "0", "0", "2", ".", "j", "p", "g">>
N_Poster_PNG == <<"P", "o", "s", "t", "e", "r", ".", "P", "N", "G">>
N_folder == <<"f", "o", "l", "d", "e", "r">>
N_thumb_txt == <<"t", "h", "u", "m", "b", ".", "t", "x", "t">>
N_THUMBNAIL_webp == <<"T", "H", "U", "M", "B", "N", "A", "I", "L", ".", "w", "e", "b", "p">>

CoverChildren ==
    {N_cover, N_page_001, N_page_002, N_Poster_PNG, N_a_PNG, N_folder, N_thumb_txt,
     N_THUMBNAIL_webp}

CoverTrees ==
    { (P_lib :> Dir(TRUE)) @@ (P_readme :> File(90)) @@ (P_locked :> Dir(FALSE))
      @@ (P_v :> Dir(TRUE)) @@ [ q \in { PathJoin(P_v, c) : c \in S } |-> File(1) ]
      : S \in SUBSET CoverChildren }

CoverPaths == {P_v, P_none, P_readme, P_locked}

\* _find_cover applied to the path the behaviour was given
FindCover ==
    /\ \E seed \in Seeds :
        last' = [op |-> "cover", path |-> last.path, out |-> _find_cover(last.path, seed)]
    /\ UNCHANGED <<fs, page, db, run, nscans>>

CoverInit ==
    /\ fs \in CoverTrees
    /\ page = NoPage /\ db = EmptyDb /\ run = NoRun /\ nscans = 0
    /\ last \in { [op |-> "none", path |-> p] : p \in CoverPaths }
CoverNext == FindCover
CoverSpec == CoverInit /\ [][CoverNext]_vars

\* The thumbnailer: a folder /lib/v whose only page p1.jpg holds any
\* picture or bytes that do not decode, and any box of the sizes of Dims.
ThumbTrees ==
    { (P_lib :> Dir(TRUE)) @@ (P_v :> Dir(TRUE)) @@ (PathJoin(P_v, N_p1) :> File(data))
      : data \in 0..(NumPictures + 1) }

GetPageThumbnail ==
    /\ \E page_number \in 0..1, seed \in Seeds :
        last' = [op |-> "thumbnail", path |-> last.path, index |-> page_number,
                 max_w |-> last.max_w, max_h |-> last.max_h,
                 out |-> get_page_thumbnail(last.path, page_number,
                                            last.max_w, last.max_h, seed)]
    /\ UNCHANGED <<fs, page, db, run, nscans>>

ThumbInit ==
    /\ fs \in ThumbTrees
    /\ page = NoPage /\ db = EmptyDb /\ run = NoRun /\ nscans = 0
    /\ last \in { [op |-> "none", path |-> P_v, max_w |-> x, max_h |-> y] :
                     x \in Dims, y \in Dims }
ThumbNext == GetPageThumbnail
ThumbSpec == ThumbInit /\ [][ThumbNext]_vars

---------------------------------------------------------------------------
(* The vocabulary of the claims, stated on the tree rather than through    *)
(* the code's own predicates.                                              *)

Range(s) == { s[i] : i \in 1..Len(s) }

\* the path names an archive: its last four characters are .cbz or .zip in
\* any case
NamedArchive(p) ==
    /\ Len(p) >= 4
    /\ Lower(SubSeq(p, Len(p) - 3, Len(p))) \in {Str_cbz, Str_zip}

\* an archive that opens
ValidArchive(p) == IsFile(p) /\ NamedArchive(p) /\ fs[p].zip = "ok"

\* a directory that can be listed
ValidFolder(p) == IsDir(p) /\ fs[p].listable

\* the extensions of the specification, without the dot
ImageExts ==
    { SubSeq(e, 2, Len(e)) : e \in {Str_jpg, Str_jpeg, Str_png, Str_webp, Str_gif, Str_bmp, Str_tiff} }

\* the name ends in a dot and one of the extensions (in any case), and the
\* dot follows a character other than a dot of the name's last component
HasImageExtension(name) ==
    \E e \in ImageExts :
        LET k == Len(name) - Len(e)
        IN  /\ k >= 2
            /\ name[k] = "."
            /\ Lower(SubSeq(name, k + 1, Len(name))) = e
            /\ \E j \in 1..(k - 1) :
                  name[j] # "." /\ \A m \in j..k : name[m] # "/"

\* an entry of an archive qualifies as a page
QualifiesInArchive(name) == HasImageExtension(name) /\ ~StartsWith(name, Str_MACOSX)

\* the positions of the qualifying entries of a valid archive
QualifyingEntries(p) ==
    { i \in 1..Len(fs[p].entries) : QualifiesInArchive(fs[p].entries[i].name) }

\* the qualifying children of a directory
QualifyingChildren(p) == { c \in ChildNames(p) : HasImageExtension(c) }

\* the number of pages of a path as the specification counts them: 0 for a
\* path that is neither a valid archive nor a listable directory
PageCountOf(p) ==
    IF ValidArchive(p) THEN Cardinality(QualifyingEntries(p))
    ELSE IF ValidFolder(p) THEN Cardinality(QualifyingChildren(p))
    ELSE 0

\* the content id of the page at index i (from 0) of a valid archive: the
\* qualifying entries ordered by name, entries of one name in their order
\* in the central directory
ArchivePageData(p, i) ==
    LET es == fs[p].entries
        Before(a, b) ==
            StrLess(es[a].name, es[b].name) \/ (es[a].name = es[b].name /\ a < b)
        at == CHOOSE a \in QualifyingEntries(p) :
                  Cardinality({ b \in QualifyingEntries(p) : Before(b, a) }) = i
    IN  es[at].data

\* the child at index i (from 0) of the qualifying children ordered by name
FolderPageName(p, i) ==
    CHOOSE c \in QualifyingChildren(p) :
        Cardinality({ b \in QualifyingChildren(p) : StrLess(b, c) }) = i

---------------------------------------------------------------------------
(* Claims about the page source (checked under PageSpec).                  *)

\* C1: for every path, get_page_count returns the length of the page
\* listing (list_cbz_pages for a valid archive, list_folder_pages for a
\* directory, under any enumeration order), and a path that is neither a
\* directory nor a valid archive, or is missing, counts 0 and lists empty.
C1_CountIsListingLength ==
    page.op = "count" =>
        LET p == page.path
        IN  /\ page.out.exc = "none"
            /\ IF ValidArchive(p)
               THEN /\ list_cbz_pages(p).exc = "none"
                    /\ page.out.n = Len(list_cbz_pages(p).val)
               ELSE IF IsDir(p)
               THEN \A seed \in Seeds :
                        /\ list_folder_pages(p, seed).exc = "none"
                        /\ page.out.n = Len(list_folder_pages(p, seed).val)
               ELSE /\ page.out.n = 0
                    /\ \A seed \in Seeds : list_folder_pages(p, seed) = Ok(<<>>)

\* C2: for a valid archive (one that opens and whose entries all read) or a
\* listable folder, and an index i with 0 <= i < count, get_page_image
\* returns the bytes of the i-th qualifying entry in ascending name order.
C2_ImageIsIthSortedEntry ==
    LET p == page.path
        i == page.index
    IN  ( /\ page.op = "image"
          /\ 0 <= i /\ i < PageCountOf(p)
          /\ \/ ValidFolder(p)
             \/ (ValidArchive(p) /\ \A k \in 1..Len(fs[p].entries) : fs[p].entries[k].crc) )
        => /\ page.out.exc = "none"
           /\ page.out.found
           /\ IF ValidArchive(p)
              THEN page.out.data = ArchivePageData(p, i)
              ELSE /\ IsFile(PathJoin(p, FolderPageName(p, i)))
                   /\ page.out.data = fs[PathJoin(p, FolderPageName(p, i))].data

\* the path is neither a directory nor a .cbz/.zip file holding a ZIP
Unsupported(p) == ~IsDir(p) /\ ~(IsFile(p) /\ NamedArchive(p) /\ fs[p].zip # "no")

\* C3: get_page_image returns None, and raises nothing, when the index is
\* negative, when it is at or past the number of pages of a path whose
\* listing exists, and when the path is unsupported.
C3_OutOfRangeIsNone ==
    LET p == page.path
        i == page.index
    IN  ( /\ page.op = "image"
          /\ \/ i < 0
             \/ ((ValidArchive(p) \/ ValidFolder(p)) /\ i >= PageCountOf(p))
             \/ Unsupported(p) )
        => page.out = None

\* the listing is in non-decreasing name order
IsSorted(s) == \A i \in 1..(Len(s) - 1) : StrLeq(s[i], s[i + 1])

\* C4: the page listing of a valid archive or folder is sorted ascending by
\* name, and listing a folder again gives the same sequence whatever the
\* order os.listdir enumerates it in.
C4_ListingSortedAndStable ==
    LET p == page.path
    IN  /\ (page.op = "list_cbz" /\ ValidArchive(p)) =>
              /\ page.out.exc = "none"
              /\ IsSorted(page.out.val)
        /\ (page.op = "list_folder" /\ ValidFolder(p)) =>
              /\ page.out.exc = "none"
              /\ IsSorted(page.out.val)
              /\ \A seed \in Seeds : list_folder_pages(p, seed) = page.out

\* a listing of several pages of an archive whose central directory is not
\* in name order, and of a folder
C4_Witness ==
    \/ /\ page.op = "list_cbz" /\ ValidArchive(page.path)
       /\ Len(page.out.val) >= 2
       /\ ~IsSorted(NameList(page.path))
    \/ /\ page.op = "list_folder" /\ ValidFolder(page.path)
       /\ Len(page.out.val) >= 2

\* C5: an entry is counted and listed iff its extension is one of jpg,
\* jpeg, png, webp, gif, bmp, tiff in any case and, in an archive, its name
\* does not start with __MACOSX.
C5_QualifyingEntriesOnly ==
    LET p == page.path
    IN  /\ (page.op = "list_cbz" /\ ValidArchive(p)) =>
              /\ Len(page.out.val) = Cardinality(QualifyingEntries(p))
              /\ \A k \in 1..Len(fs[p].entries) :
                    fs[p].entries[k].name \in Range(page.out.val)
                        <=> QualifiesInArchive(fs[p].entries[k].name)
              /\ \A n \in Range(page.out.val) : ~StartsWith(n, Str_MACOSX)
        /\ (page.op = "list_folder" /\ ValidFolder(p)) =>
              /\ Len(page.out.val) = Cardinality(QualifyingChildren(p))
              /\ \A c \in ChildNames(p) :
                    PathJoin(p, c) \in Range(page.out.val) <=> HasImageExtension(c)
        /\ (page.op = "count" /\ (ValidArchive(p) \/ ValidFolder(p))) =>
              page.out = IntOk(PageCountOf(p))

\* the archive and the folder that hold every name have been listed: some
\* entries are kept, a __MACOSX entry and other extensions are left out
C5_Witness ==
    /\ page.op \in {"list_cbz", "list_folder"}
    /\ page.path \in {P_all_cbz, P_all}
    /\ page.out.exc = "none"
    /\ Len(page.out.val) >= 7
    /\ page.op = "list_cbz" => Len(page.out.val) < Len(fs[page.path].entries)

---------------------------------------------------------------------------
(* Claims about the scanner (checked under ScanSpec).                      *)

\* the source path of the last scan
RunSource == Sources[run.source_id]

AddMangaCalls == { k \in 1..Len(run.calls) : run.calls[k].op = "add_manga" }
AddChapterCalls == { k \in 1..Len(run.calls) : run.calls[k].op = "add_chapter" }

\* a child of a manga directory that is a chapter candidate: an archive
\* that opens, or a listable folder with at least one page
IsChapterCandidate(dir, c) ==
    LET q == PathJoin(dir, c)
    IN  ValidArchive(q) \/ (ValidFolder(q) /\ PageCountOf(q) > 0)

\* the tree of the scenario: Alpha with Chapter 01.cbz (3 images) and
\* Chapter 02.cbz (no image), and an empty Beta
Scenario ==
    /\ ValidFolder(P_Alpha) /\ ValidFolder(P_Beta)
    /\ ChildNames(P_Beta) = {}
    /\ ChildNames(P_Alpha) \ {N_cover} = {N_Chapter01, N_Chapter02}
    /\ ValidArchive(PathJoin(P_Alpha, N_Chapter01))
    /\ PageCountOf(PathJoin(P_Alpha, N_Chapter01)) = 3
    /\ ValidArchive(PathJoin(P_Alpha, N_Chapter02))
    /\ PageCountOf(PathJoin(P_Alpha, N_Chapter02)) = 0

\* C6: a manga is emitted only if its directory has a chapter candidate; an
\* emitted folder chapter has page_count > 0; an archive that opens is
\* emitted whatever its page count; the scenario returns mangas = 1,
\* chapters = 2, with Chapter 02.cbz at page_count 0 and no Beta.
C6_EmissionRules ==
    nscans >= 1 =>
        /\ \A k \in AddMangaCalls :
              LET dir == PathJoin(RunSource, run.calls[k].title)
              IN  /\ IsDir(dir)
                  /\ \E c \in ChildNames(dir) : IsChapterCandidate(dir, c)
        /\ \A k \in AddChapterCalls :
              /\ IsDir(run.calls[k].file_path) => run.calls[k].page_count > 0
              /\ run.calls[k].page_count = PageCountOf(run.calls[k].file_path)
        /\ (run.exc = "none" /\ IsDir(RunSource)) =>
              \A m \in ChildNames(RunSource) : \A c \in ChildNames(PathJoin(RunSource, m)) :
                  LET q == PathJoin(PathJoin(RunSource, m), c)
                  IN  (IsDir(PathJoin(RunSource, m)) /\ ValidArchive(q)) =>
                          \E k \in AddChapterCalls :
                              /\ run.calls[k].file_path = q
                              /\ run.calls[k].page_count = PageCountOf(q)
        /\ (Scenario /\ RunSource = P_lib) =>
              /\ run.exc = "none" /\ run.mangas = 1 /\ run.chapters = 2
              /\ \E k \in AddChapterCalls :
                    /\ run.calls[k].file_path = PathJoin(P_Alpha, N_Chapter02)
                    /\ run.calls[k].page_count = 0
              /\ \A k \in AddMangaCalls : run.calls[k].title # N_Beta

\* the scenario has been scanned
C6_Witness == nscans >= 1 /\ Scenario /\ RunSource = P_lib /\ Len(run.calls) = 3

\* the add_manga call that precedes call k
MangaCallBefore(k) ==
    CHOOSE j \in AddMangaCalls : j < k /\ \A i \in AddMangaCalls : i < k => i <= j

\* C7: the port calls of one run are groups, one per manga in ascending
\* name order: an add_manga, then straight after it the add_chapter calls
\* of exactly that manga's chapters, with the id add_manga returned, in
\* ascending name order.
C7_CallOrder ==
    nscans >= 1 =>
        /\ run.calls # <<>> => run.calls[1].op = "add_manga"
        /\ \A j, k \in AddMangaCalls :
              j < k => StrLess(run.calls[j].title, run.calls[k].title)
        /\ \A k \in AddMangaCalls :
              LET n == run.calls[k].total_chapters
                  dir == PathJoin(RunSource, run.calls[k].title)
              IN  /\ n >= 1 /\ k + n <= Len(run.calls)
                  /\ \A i \in (k + 1)..(k + n) : i \in AddChapterCalls
                  /\ k + n < Len(run.calls) => (k + n + 1) \in AddMangaCalls
                  /\ { run.calls[i].file_path : i \in (k + 1)..(k + n) }
                        = { PathJoin(dir, c) : c \in { x \in ChildNames(dir) : IsChapterCandidate(dir, x) } }
                  /\ \E row \in Range(db.mangas) :
                        row.id = run.calls[k].id /\ row.title = run.calls[k].title
        /\ \A k \in AddChapterCalls :
              /\ run.calls[k].manga_id = run.calls[MangaCallBefore(k)].id
              /\ (k + 1) \in AddChapterCalls =>
                    StrLess(run.calls[k].file_path, run.calls[k + 1].file_path)

\* a run that emitted two mangas with two chapters or more each
C7_Witness ==
    /\ nscans >= 1
    /\ Cardinality(AddMangaCalls) = 2
    /\ \A k \in AddMangaCalls : run.calls[k].total_chapters >= 2

\* C8: when scan_source returns, 'mangas' is the number of add_manga calls
\* and 'chapters' the number of add_chapter calls of the run, each manga's
\* total_chapters is the number of add_chapter calls made for it, and a
\* source path that is no directory returns (0, 0) and makes no call.
C8_ReturnedCounts ==
    (nscans >= 1 /\ run.exc = "none") =>
        /\ run.mangas = Cardinality(AddMangaCalls)
        /\ run.chapters = Cardinality(AddChapterCalls)
        /\ \A k \in AddMangaCalls :
              run.calls[k].total_chapters =
                  Cardinality({ i \in AddChapterCalls : run.calls[i].manga_id = run.calls[k].id })
        /\ ~IsDir(RunSource) =>
              run.mangas = 0 /\ run.chapters = 0 /\ run.calls = <<>>

\* a run that returned after emitting two mangas and three chapters or more
C8_Witness ==
    /\ nscans >= 1 /\ run.exc = "none"
    /\ run.mangas = 2 /\ run.chapters >= 3

\* a manga directory of the source that can be listed and whose entries can
\* all be classified
Classifiable(dir) ==
    /\ ValidFolder(dir)
    /\ \A c \in ChildNames(dir) :
          LET q == PathJoin(dir, c)
          IN  /\ IsDir(q) => ValidFolder(q)
              /\ (IsFile(q) /\ NamedArchive(q)) => fs[q].zip # "bad"

\* C9: a run over a listable source returns normally whatever single entry
\* cannot be classified (an unlistable manga directory or chapter folder,
\* an archive that passes the signature check but does not open), and
\* still emits every manga whose entries can all be classified.
C9_FailureIsolation ==
    (nscans >= 1 /\ ValidFolder(RunSource)) =>
        /\ run.exc = "none"
        /\ \A m \in ChildNames(RunSource) :
              LET dir == PathJoin(RunSource, m)
              IN  (Classifiable(dir) /\ \E c \in ChildNames(dir) : IsChapterCandidate(dir, c))
                      => \E k \in AddMangaCalls : run.calls[k].title = m

\* what a port call says of the manga or chapter (its descriptor): the call
\* without the ids the port gave
Descriptor(call) ==
    IF call.op = "add_manga"
    THEN <<"manga", call.title, call.cover_path, call.total_chapters>>
    ELSE <<"chapter", call.chapter_number, call.title, call.file_path, call.page_count>>

Descriptors(calls) == [ k \in 1..Len(calls) |-> Descriptor(calls[k]) ]

\* C10: a scan of the source the previous scan was given emits the same
\* sequence of descriptors and ends the same way with the same counts,
\* whatever order os.listdir enumerates in and whatever the port holds.
C10_ScanIdempotent ==
    [][ (nscans >= 1 /\ nscans' = nscans + 1 /\ run'.source_id = run.source_id) =>
            /\ Descriptors(run'.calls) = Descriptors(run.calls)
            /\ run'.exc = run.exc
            /\ run'.mangas = run.mangas /\ run'.chapters = run.chapters ]_vars

\* the source has been scanned twice, each scan emitting two mangas, and
\* the port holds the rows of both scans
C10_Witness ==
    /\ nscans >= 2 /\ run.exc = "none"
    /\ run.mangas = 2
    /\ Len(db.mangas) = 4

---------------------------------------------------------------------------
(* Claims about the chapter-number heuristic (checked under HeurSpec).     *)

\* C11: the heuristic maps "Chapter 05" to 5.0, "Ch.12" to 12.0, "c003" to
\* 3.0, "001 - Title" to 1.0 and "Extra Stories" to 0.0, and a bare c
\* followed by digits ("c003", "c03") is a chapter marker like ch and chapter.
C11_HeuristicExamples ==
    last.op = "number" =>
        /\ (last.name = Name_Chapter_05 => last.out = Float(5, 0))
        /\ (last.name = Name_Ch_12 => last.out = Float(12, 0))
        /\ (last.name = Name_c003 => last.out = Float(3, 0))
        /\ (last.name = Name_c03 => last.out = Float(3, 0))
        /\ (last.name = Name_001_Title => last.out = Float(1, 0))
        /\ (last.name = Name_Extra_Stories => last.out = Float(0, 0))

\* the characters 0..9 and the separators of the marker pattern
DigitSet == {"0", "1", "2", "3", "4", "5", "6", "7", "8", "9"}
SepSet == {" ", ".", "_", "-"}

\* name[j..k] reads as an integer or decimal token: digits, optionally
\* followed by a dot and digits
ReadsAsToken(name, j, k) ==
    /\ 1 <= j /\ j <= k /\ k <= Len(name)
    /\ \E m \in j..k :
        /\ \A q \in j..m : name[q] \in DigitSet
        /\ \/ m = k
           \/ /\ m + 2 <= k
              /\ name[m + 1] = "."
              /\ \A q \in (m + 2)..k : name[q] \in DigitSet

\* the end of the longest token that starts at j (0 when none starts there)
TokenEnd(name, j) ==
    IF \E k \in 1..Len(name) : ReadsAsToken(name, j, k)
    THEN CHOOSE k \in 1..Len(name) :
            /\ ReadsAsToken(name, j, k)
            /\ \A k2 \in 1..Len(name) : ReadsAsToken(name, j, k2) => k2 <= k
    ELSE 0

\* a chapter marker starts at i and its token starts at j: ch in any case,
\* optionally apter, then separators only, then a digit
MarkerAt(name, i, j) ==
    /\ 1 <= i /\ i + 1 <= Len(name) /\ j <= Len(name)
    /\ name[i] \in {"c", "C"} /\ name[i + 1] \in {"h", "H"}
    /\ name[j] \in DigitSet
    /\ \E w \in {i + 2, i + 7} :
        /\ w <= j
        /\ (w = i + 7 =>
               /\ name[i + 2] \in {"a", "A"} /\ name[i + 3] \in {"p", "P"}
               /\ name[i + 4] \in {"t", "T"} /\ name[i + 5] \in {"e", "E"}
               /\ name[i + 6] \in {"r", "R"})
        /\ \A q \in w..(j - 1) : name[q] \in SepSet

RECURSIVE Pow10(_)
Pow10(n) == IF n = 0 THEN 1 ELSE 10 * Pow10(n - 1)

RECURSIVE IntOf(_)
IntOf(ds) ==
    IF ds = <<>> THEN 0
    ELSE (CHOOSE v \in 0..9 : DigitChars[v + 1] = Head(ds)) * Pow10(Len(ds) - 1)
         + IntOf(Tail(ds))

IsDigitChar(c) == c \in DigitSet

\* the float f is the value of the token tok
IsValueOf(f, tok) ==
    LET dot == IF \E q \in 1..Len(tok) : tok[q] = "."
               THEN CHOOSE q \in 1..Len(tok) : tok[q] = "."
               ELSE Len(tok)
    IN  f.mant * Pow10(Len(tok) - dot) = IntOf(SelectSeq(tok, IsDigitChar)) * Pow10(f.exp)

---------------------------------------------------------------------------
(* Claims about the cover picker (checked under CoverSpec).                *)

\* the base names that mark a cover
CoverWords ==
    {<<"c", "o", "v", "e", "r">>, <<"f", "o", "l", "d", "e", "r">>,
     <<"p", "o", "s", "t", "e", "r">>, <<"t", "h", "u", "m", "b">>,
     <<"t", "h", "u", "m", "b", "n", "a", "i", "l">>}

\* the entry is a cover word in any case, a dot and an image extension
IsCoverEntry(name) ==
    \E w \in CoverWords, e \in ImageExts :
        /\ Len(name) = Len(w) + 1 + Len(e)
        /\ Lower(name) = w \o <<".">> \o e

\* the least name of a non-empty set of names
FirstName(S) == CHOOSE x \in S : \A y \in S : StrLeq(x, y)

\* C13: over a directory's listing _find_cover returns the first entry in
\* sorted-name order that is a cover word with an image extension, even
\* when other images sort before it; failing that the first entry in
\* sorted-name order with an image extension; and none when the directory
\* has no image entry or the path is no directory.
C13_CoverChoice ==
    last.op = "cover" =>
        LET named == { c \in ChildNames(last.path) : IsCoverEntry(c) }
            images == { c \in ChildNames(last.path) : HasImageExtension(c) }
        IN  /\ ~IsDir(last.path) => last.out = NoPath
            /\ ValidFolder(last.path) =>
                  IF named # {}
                  THEN last.out = SomePath(last.path \o <<"/">> \o FirstName(named))
                  ELSE IF images # {}
                  THEN last.out = SomePath(last.path \o <<"/">> \o FirstName(images))
                  ELSE last.out = NoPath

\* cover.jpg was picked in a directory where a.PNG and Poster.PNG are absent
\* or present: here a.PNG sorts before it
C13_Witness ==
    /\ last.op = "cover" /\ last.path = P_v
    /\ {N_a_PNG, N_cover, N_page_001} \subseteq ChildNames(P_v)
    /\ N_Poster_PNG \notin ChildNames(P_v) /\ N_THUMBNAIL_webp \notin ChildNames(P_v)
    /\ last.out = SomePath(P_v \o <<"/">> \o N_cover)

---------------------------------------------------------------------------
(* Claims about failures of the page source (checked under PageSpec).      *)

\* a .cbz/.zip file that passes the ZIP signature check
SignedArchive(p) == IsFile(p) /\ NamedArchive(p) /\ fs[p].zip # "no"

\* C14: get_page_count and the page listing never fail: for every path, a
\* missing one, a file that is no archive and a .cbz/.zip file that passes
\* the signature check but cannot be opened included, the call returns a
\* value (zero or empty for unsupported or missing input) and raises nothing.
C14_CountAndListingNeverFail ==
    /\ page.op = "count" =>
          /\ page.out.exc = "none"
          /\ (Unsupported(page.path) => page.out.n = 0)
    /\ (page.op = "list_cbz" /\ SignedArchive(page.path)) => page.out.exc = "none"
    /\ page.op = "list_folder" =>
          /\ page.out.exc = "none"
          /\ (Unsupported(page.path) => page.out.val = <<>>)

\* C15: for a .cbz/.zip file whose central directory is truncated,
\* get_page_image yields the CorruptArchive outcome: no exception of opening
\* or enumerating the archive escapes, and the outcome differs from the
\* NotFound outcome (None) of an index out of range.
C15_CorruptArchiveOutcome ==
    (page.op = "image" /\ SignedArchive(page.path) /\ fs[page.path].zip = "bad") =>
        /\ page.out.exc = "none"
        /\ page.out # None

---------------------------------------------------------------------------
(* Claims about the thumbnailer (checked under ThumbSpec).                 *)

\* the picture held by the page of the folder
SourcePicture == ImageOpen(fs[P_v \o <<"/">> \o N_p1].data)

\* one dimension of the thumbnail is less than a pixel away from the other
\* dimension scaled by the source's aspect ratio
AspectKept(tw, th, w, h) ==
    \/ Abs(tw * h - th * w) < h
    \/ Abs(th * w - tw * h) < w

\* C16: a thumbnail produced from a decodable w x h page under the bound
\* (maxWidth, maxHeight) has width <= maxWidth and height <= maxHeight, is
\* not larger than the source in either dimension (100x100 under 300x400
\* stays 100x100) and keeps the aspect ratio within rounding (1200x1600
\* under 300x400 gives 300x400).
C16_ThumbnailBounds ==
    (last.op = "thumbnail" /\ last.out.found) =>
        /\ SourcePicture.exc = "none"
        /\ 1 <= last.out.w /\ last.out.w <= last.max_w
        /\ 1 <= last.out.h /\ last.out.h <= last.max_h
        /\ last.out.w <= SourcePicture.w
        /\ last.out.h <= SourcePicture.h
        /\ AspectKept(last.out.w, last.out.h, SourcePicture.w, SourcePicture.h)
        /\ (last.max_w = 300 /\ last.max_h = 400) =>
              /\ (SourcePicture.w = 100 /\ SourcePicture.h = 100) =>
                    (last.out.w = 100 /\ last.out.h = 100)
              /\ (SourcePicture.w = 1200 /\ SourcePicture.h = 1600) =>
                    (last.out.w = 300 /\ last.out.h = 400)

\* a 1200x1600 page was thumbnailed under 300x400 into 300x400, and the
\* state is one where scaling took place
C16_Witness ==
    /\ last.op = "thumbnail" /\ last.out.found
    /\ SourcePicture.w = 1200 /\ SourcePicture.h = 1600
    /\ last.max_w = 300 /\ last.max_h = 400
    /\ last.out.w = 300 /\ last.out.h = 400

---------------------------------------------------------------------------
(* Further claims about the scanner (checked under ScanSpec).              *)

\* the last component of a path
LastComponent(p) ==
    LET cut == CHOOSE k \in 0..Len(p) :
                   /\ (k > 0 => p[k] = "/")
                   /\ \A q \in (k + 1)..Len(p) : p[q] # "/"
    IN  SubSeq(p, cut + 1, Len(p))

\* a file name without its .cbz / .zip extension (its last four characters)
WithoutArchiveExtension(name) == SubSeq(name, 1, Len(name) - 4)

\* C17: the ordering number of an emitted archive chapter is the heuristic
\* applied to its file name without the .cbz/.zip extension, and that of an
\* emitted directory chapter is the heuristic applied to the directory name.
C17_NumberFromBaseName ==
    \A k \in AddChapterCalls :
        LET c == run.calls[k]
            name == LastComponent(c.file_path)
        IN  IF IsDir(c.file_path)
            THEN c.chapter_number = _extract_chapter_number(name)
            ELSE /\ NamedArchive(name)
                 /\ c.chapter_number =
                        _extract_chapter_number(WithoutArchiveExtension(name))

\* a run emitted the archive chapter "Chapter 01.cbz" with number 1.0 and
\* the directory chapter "001" with number 1.0
C17_Witness ==
    /\ \E k \in AddChapterCalls :
          /\ run.calls[k].file_path = P_Alpha \o <<"/">> \o N_Chapter01
          /\ run.calls[k].chapter_number = Float(1, 0)
    /\ \E k \in AddChapterCalls :
          /\ run.calls[k].file_path = P_Beta \o <<"/">> \o N_001
          /\ run.calls[k].chapter_number = Float(1, 0)

\* the rows of a table that satisfy Is
RowsWhere(rows, Is(_)) == Cardinality({ i \in 1..Len(rows) : Is(rows[i]) })

\* the rows a table held before are still its first rows, unchanged
KeepsRows(before, after) ==
    /\ Len(before) <= Len(after)
    /\ SubSeq(after, 1, Len(before)) = before

\* C18: a scan never looks for existing records and every add_manga /
\* add_chapter inserts a row: each scan adds exactly one manga row for each
\* manga directory it discovers and one chapter row for each chapter path
\* it discovers, on top of the rows of the earlier scans, which it leaves
\* as they are (so k scans of an unchanged source leave k rows of each).
C18_RescanAddsRows ==
    [][ (nscans' = nscans + 1) =>
            /\ KeepsRows(db.mangas, db'.mangas)
            /\ KeepsRows(db.chapters, db'.chapters)
            /\ Len(db'.mangas) =
                  Len(db.mangas) + Cardinality({ k \in 1..Len(run'.calls) : run'.calls[k].op = "add_manga" })
            /\ Len(db'.chapters) =
                  Len(db.chapters) + Cardinality({ k \in 1..Len(run'.calls) : run'.calls[k].op = "add_chapter" })
            /\ \A k \in 1..Len(run'.calls) :
                  LET c == run'.calls[k]
                      SameManga(r) == r.title = c.title /\ r.source_id = c.source_id
                      SamePath(r) == r.file_path = c.file_path
                  IN  IF c.op = "add_manga"
                      THEN RowsWhere(db'.mangas, SameManga) = RowsWhere(db.mangas, SameManga) + 1
                      ELSE RowsWhere(db'.chapters, SamePath) = RowsWhere(db.chapters, SamePath) + 1 ]_vars

\* after two scans that each returned, the port holds two rows of the manga
\* Alpha and two rows of its chapter "Chapter 01.cbz"
C18_Witness ==
    /\ nscans = 2 /\ run.exc = "none"
    /\ Cardinality({ i \in 1..Len(db.mangas) : db.mangas[i].title = N_Alpha }) = 2
    /\ Cardinality({ i \in 1..Len(db.chapters) :
                        db.chapters[i].file_path = P_Alpha \o <<"/">> \o N_Chapter01 }) = 2

===========================================================================
